---- MODULE Spec2Model ----
(***************************************************************************)
(* The fridge inventory ledger of fridge_agent: the SQLite tables          *)
(* inventory and shelf_life_defaults behind one connection (bk/db copy     *)
(* 2.py) and the handlers of inventory_tool.py that drive them.            *)
(*                                                                         *)
(* Quantities are REAL in the code.  They are modelled as fixed-point      *)
(* integers counted in units of 1e-9, the tolerance consume() adds to its  *)
(* comparison, so that tolerance is EPS == 1.  Floating-point rounding is  *)
(* not modelled.                                                           *)
(* Calendar dates are day numbers MinDate..MaxDate (date.min..date.max);   *)
(* day 0 is the first day of year 1000, the first whose year strftime      *)
(* writes with four digits on this build.  A date text is a record         *)
(* [fmt, day] and is converted by _to_date_str / _parse_to_date as the     *)
(* code converts it.                                                       *)
(* Timestamps (_now_text) are readings of a logical clock.                 *)
(***************************************************************************)
EXTENDS Integers, Sequences, FiniteSets, TLC

VARIABLES
    inventory,   \* table inventory as the connection sees it (uncommitted writes included)
    defaults,    \* table shelf_life_defaults as the connection sees it
    seq,         \* sqlite_sequence of inventory: the largest id ever assigned
    committed,   \* the durable content [inventory, defaults, seq] as of the last commit
    clock,       \* the wall clock read by _now_text and datetime.now
    last         \* the call made by the latest step: its arguments, result and pre-state

vars == <<inventory, defaults, seq, committed, clock, last>>

----------------------------------------------------------------------------
(* Bounds of the model *)

\* ids handed out by AUTOINCREMENT over a run of Spec
MaxId == 2
\* ids handed out by AUTOINCREMENT over a run of SpecConsume
MaxBatches == 3
\* ids handed out by AUTOINCREMENT over a run of SpecUpdate
MaxUpd == 3
\* ids handed out by AUTOINCREMENT over a run of SpecRead
MaxRead == 3
\* rows of the database file SpecLegacy starts from
MaxLegacy == 2
\* readings of the clock
MaxClock == 1
\* the last representable day (date.max)
MaxDate == 9

(* Program constants *)

\* consume: row_qty <= remaining + 1e-9
EPS == 1
\* add: upsert_default_days(conn, name, 7, tz)
FallbackDays == 7
\* date.min, the first day timedelta arithmetic can reach (year 1)
MinDate == -2

----------------------------------------------------------------------------
(* Optional values of the payload: payload.get(k) is None or a value *)

None == <<>>
Some(v) == <<v>>
Val(o) == o[1]

\* Python truthiness of a name: None and "" are falsy
Falsy(name) == name = None \/ name = Some("")

----------------------------------------------------------------------------
(* Date texts *)

\* "YYYY-MM-DD"
Ymd(d) == [fmt |-> "ymd", day |-> d]
\* "YYYY-MM-DDTHH:MM:SS", no offset
IsoLocal(d) == [fmt |-> "iso_local", day |-> d]
\* "YYYY-MM-DDT20:00:00+00:00": an instant of UTC day d that is day d+1 in the tool's zone
IsoUtcLate(d) == [fmt |-> "iso_utc_late", day |-> d]
\* "YYYY-MM-DD" followed by text fromisoformat rejects
YmdJunk(d) == [fmt |-> "ymd_junk", day |-> d]
\* "YYY-MM-DD": nine characters, what strftime("%Y-%m-%d") writes for a
\* year below 1000 (glibc does not pad %Y); strptime and fromisoformat want
\* four digits of year
YmdShort(d) == [fmt |-> "ymd_short", day |-> d]
\* a text none of the three stages accepts
BadText == [fmt |-> "bad", day |-> 0]

\* date.strftime("%Y-%m-%d")
_to_date_str(d) == IF d < 0 THEN YmdShort(d) ELSE Ymd(d)

\* datetime.now(ZoneInfo(tz)).date(): a reading of the clock is a day later than the one before
Today == clock

\* _parse_to_date raises ValueError (or OverflowError past date.max)
ParseRaises(s) ==
    /\ s # None
    /\ \/ Val(s).fmt = "bad"
       \/ Val(s).fmt = "ymd_short"
       \/ Val(s).fmt = "iso_utc_late" /\ Val(s).day + 1 > MaxDate

\* _parse_to_date: strptime, then fromisoformat in the tool's zone, then s[:10]
_parse_to_date(s) ==
    IF s = None THEN Today
    ELSE CASE Val(s).fmt = "ymd" -> Val(s).day
           [] Val(s).fmt = "iso_local" -> Val(s).day
           [] Val(s).fmt = "iso_utc_late" -> Val(s).day + 1
           [] Val(s).fmt = "ymd_junk" -> Val(s).day
           [] OTHER -> 0

\* db._parse_text_to_date, applied to a stored text
_parse_text_to_date(t) == _parse_to_date(Some(t))

\* SQL NULL as a sort key: ORDER BY .. ASC puts it before every date
SqlNull == MinDate - 1

\* SQLite date(text) of a stored text, the sort and filter key of the
\* queries: the UTC day of a text with an offset, NULL for a text that is
\* no ISO-8601 date
SqlDate(t) ==
    CASE t.fmt = "ymd" -> t.day
      [] t.fmt = "iso_local" -> t.day
      [] t.fmt = "iso_utc_late" -> t.day
      [] OTHER -> SqlNull

\* date + timedelta(days) raises OverflowError outside date.min..date.max
Overflows(d, days) == d + days > MaxDate \/ d + days < MinDate

----------------------------------------------------------------------------
(* Tables *)

\* _now_text(tz)
_now_text == clock

\* one row of inventory (unit and created_at are written once and never read back)
Row(id, name, quantity, in_at, exp_at, exp_source, updated_at) ==
    [id |-> id, name |-> name, quantity |-> quantity, in_at |-> in_at,
     exp_at |-> exp_at, exp_source |-> exp_source, updated_at |-> updated_at]

\* a lookup that finds no row
get_default_days_blind(defs, name) == None

\* get_default_days: the days of the row of that name, None without one
get_default_days(defs, name) ==
    IF \E d \in defs : d.name = name
    THEN Some((CHOOSE d \in defs : d.name = name).days)
    ELSE None

\* CHECK(days > 0) of shelf_life_defaults
DaysCheckFails(days) == ~(days > 0)

\* the upsert as INSERT OR REPLACE: the row of the name is written anew
upsert_default_days_replacing(defs, name, days) ==
    {d \in defs : d.name # name}
    \cup {[name |-> name, days |-> days,
           created_at |-> _now_text, updated_at |-> _now_text]}

\* upsert_default_days: INSERT .. ON CONFLICT(name) DO UPDATE SET days, updated_at
upsert_default_days(defs, name, days) ==
    IF \E d \in defs : d.name = name
    THEN {IF d.name = name
          THEN [d EXCEPT !.days = days, !.updated_at = _now_text]
          ELSE d : d \in defs}
    ELSE defs \cup {[name |-> name, days |-> days,
                     created_at |-> _now_text, updated_at |-> _now_text]}

\* the database content a commit makes durable
Db(inv, defs, s) == [inventory |-> inv, defaults |-> defs, seq |-> s]

----------------------------------------------------------------------------
(* ORDER BY *)

\* a precedes b in the lexicographic order of two key tuples of one length
LexLess(a, b) ==
    \E i \in 1..Len(a) : a[i] < b[i] /\ \A j \in 1..(i - 1) : a[j] = b[j]

RECURSIVE SortedBy(_, _)
\* the rows of S as a sequence ascending by key[r]
SortedBy(S, key) ==
    IF S = {} THEN <<>>
    ELSE LET m == CHOOSE r \in S : \A o \in S \ {r} : LexLess(key[r], key[o])
         IN <<m>> \o SortedBy(S \ {m}, key)

\* the ORDER BY without its date(in_at) term
CanonicalKeyWithoutInAt(r) == <<SqlDate(r.exp_at), r.id>>

\* ORDER BY date(exp_at) ASC, date(in_at) ASC, id ASC
CanonicalKey(r) == <<SqlDate(r.exp_at), SqlDate(r.in_at), r.id>>

\* consume's SELECT ordered by id alone
ConsumeKeyById(r) == <<r.id>>

\* consume's SELECT: ORDER BY date(exp_at) ASC, id ASC
ConsumeKey(r) == <<SqlDate(r.exp_at), r.id>>

\* list_inventory
list_inventory(inv) == SortedBy(inv, [r \in inv |-> CanonicalKey(r)])

\* get_items_by_name
get_items_by_name(inv, name) ==
    LET S == {r \in inv : r.name = name}
    IN SortedBy(S, [r \in S |-> CanonicalKey(r)])

\* the SELECT of expiring_within with its upper end exclusive
expiring_within_exclusive(inv, today, days) ==
    LET start == SqlDate(_to_date_str(today))
        end == SqlDate(_to_date_str(today + days))
        S == {r \in inv : /\ SqlDate(r.exp_at) # SqlNull
                          /\ start # SqlNull /\ end # SqlNull
                          /\ SqlDate(r.exp_at) >= start
                          /\ SqlDate(r.exp_at) < end}
    IN SortedBy(S, [r \in S |-> CanonicalKey(r)])

\* expiring_within once today + timedelta(days) has not raised:
\* WHERE date(exp_at) >= date(start) AND date(exp_at) <= date(end), a
\* comparison with NULL selecting nothing
expiring_within(inv, today, days) ==
    LET start == SqlDate(_to_date_str(today))
        end == SqlDate(_to_date_str(today + days))
        S == {r \in inv : /\ SqlDate(r.exp_at) # SqlNull
                          /\ start # SqlNull /\ end # SqlNull
                          /\ SqlDate(r.exp_at) >= start
                          /\ SqlDate(r.exp_at) <= end}
    IN SortedBy(S, [r \in S |-> CanonicalKey(r)])

\* the rows consume's SELECT returns, in its order
ConsumeRows(inv, name) ==
    LET S == {r \in inv : r.name = name}
    IN SortedBy(S, [r \in S |-> ConsumeKey(r)])

----------------------------------------------------------------------------
(* db.consume *)

\* the UPDATE writing exp_source = 'default' as well
SetQuantityResettingSource(inv, id, q) ==
    {IF r.id = id
     THEN [r EXCEPT !.quantity = q, !.updated_at = _now_text, !.exp_source = "default"]
     ELSE r
     : r \in inv}

\* the UPDATE of consume's else branch: quantity and updated_at of row id
SetQuantity(inv, id, q) ==
    {IF r.id = id THEN [r EXCEPT !.quantity = q, !.updated_at = _now_text] ELSE r
     : r \in inv}

\* the DELETE matching no row
DeleteRowMissed(inv, id) == inv

\* DELETE FROM inventory WHERE id=?
DeleteRow(inv, id) == {r \in inv : r.id # id}

\* the comparison strict and without tolerance: a batch equal to the
\* remainder is decremented to zero and kept
TakesWholeStrict(row_qty, remaining) == row_qty < remaining

\* TakesWhole with the tolerance of 1e-9 taken twice
TakesWholeLoose(row_qty, remaining) == row_qty <= remaining + EPS + EPS

\* the comparison that decides between deleting a batch and decrementing it
TakesWhole(row_qty, remaining) == row_qty <= remaining + EPS

RECURSIVE Walk(_, _, _, _, _)
\* the loop of consume over the selected rows; the storage raises on the
\* statement reached with budget 0 (a negative budget never raises)
Walk(rows, remaining, inv, details, budget) ==
    IF rows = <<>> \/ remaining <= 0
    THEN [inv |-> inv, details |-> details, remaining |-> remaining, raised |-> FALSE]
    ELSE IF budget = 0
    THEN [inv |-> inv, details |-> details, remaining |-> remaining, raised |-> TRUE]
    ELSE LET r == Head(rows) IN
         IF TakesWhole(r.quantity, remaining)
         THEN Walk(Tail(rows), remaining - r.quantity, DeleteRow(inv, r.id),
                   Append(details, [row_id |-> r.id, consumed |-> r.quantity,
                                    deleted |-> TRUE]),
                   budget - 1)
         ELSE Walk(Tail(rows), 0, SetQuantity(inv, r.id, r.quantity - remaining),
                   Append(details, [row_id |-> r.id, consumed |-> remaining,
                                    deleted |-> FALSE]),
                   budget - 1)

\* the remainder returned as it is, without max
UnfulfilledUnclamped(remaining) == remaining

\* max(0.0, remaining)
Unfulfilled(remaining) == IF remaining > 0 THEN remaining ELSE 0

\* consume(conn, name, qty, tz) up to its commit
consume(inv, name, qty, budget) == Walk(ConsumeRows(inv, name), qty, inv, <<>>, budget)

----------------------------------------------------------------------------
(* db.update_default_and_recalc_items *)

\* the SELECT without its exp_source filter
RowsOfName(inv, name) ==
    LET S == {r \in inv : r.name = name}
    IN SortedBy(S, [r \in S |-> <<r.id>>])

\* SELECT id, in_at FROM inventory WHERE name=? AND exp_source='default' (rowid order)
DefaultRows(inv, name) ==
    LET S == {r \in inv : r.name = name /\ r.exp_source = "default"}
    IN SortedBy(S, [r \in S |-> <<r.id>>])

\* the UPDATE setting updated_at alone
SetStamp(inv, id, exp_text, now) ==
    {IF r.id = id THEN [r EXCEPT !.updated_at = now] ELSE r : r \in inv}

\* UPDATE inventory SET exp_at=?, updated_at=? WHERE id=?
SetExp(inv, id, exp_text, now) ==
    {IF r.id = id THEN [r EXCEPT !.exp_at = exp_text, !.updated_at = now] ELSE r
     : r \in inv}

\* the loop counting the selected rows without the UPDATE
RecalcSkipped(rows, inv, new_days, now, changed) ==
    [inv |-> inv, changed |-> Len(rows), raised |-> FALSE, error |-> "none"]

RECURSIVE Recalc(_, _, _, _, _)
\* the loop of update_default_and_recalc_items; the parse of a stored in_at
\* raises ValueError, in_d + timedelta raises OverflowError past date.max
Recalc(rows, inv, new_days, now, changed) ==
    IF rows = <<>>
    THEN [inv |-> inv, changed |-> changed, raised |-> FALSE, error |-> "none"]
    ELSE LET r == Head(rows)
             in_d == _parse_text_to_date(r.in_at)
         IN IF ParseRaises(Some(r.in_at))
            THEN [inv |-> inv, changed |-> changed, raised |-> TRUE,
                  error |-> "ValueError"]
            ELSE IF Overflows(in_d, new_days)
            THEN [inv |-> inv, changed |-> changed, raised |-> TRUE,
                  error |-> "OverflowError"]
            ELSE Recalc(Tail(rows),
                        SetExp(inv, r.id, _to_date_str(in_d + new_days), now),
                        new_days, now, changed + 1)

----------------------------------------------------------------------------
(* db._normalize_existing_rows_to_date_only *)

\* instr(text, 'T') > 0
HasTimeSeparator(t) == t.fmt \in {"iso_local", "iso_utc_late"}

\* length(text) = 10: of the texts of the model, "YYYY-MM-DD" alone
HasLengthTen(t) == t.fmt = "ymd"

\* the WHERE of the pass: length(in_at) != 10 OR length(exp_at) != 10 OR
\* instr(in_at,'T') > 0 OR instr(exp_at,'T') > 0
NeedsNormalizing(r) ==
    \/ ~HasLengthTen(r.in_at) \/ ~HasLengthTen(r.exp_at)
    \/ HasTimeSeparator(r.in_at) \/ HasTimeSeparator(r.exp_at)

\* UPDATE inventory SET in_at=?, exp_at=? WHERE id=?
SetDates(inv, id, new_in, new_exp) ==
    {IF r.id = id THEN [r EXCEPT !.in_at = new_in, !.exp_at = new_exp] ELSE r
     : r \in inv}

RECURSIVE NormalizeLoop(_, _, _)
\* the loop of the pass over the selected rows; a text no stage parses raises
NormalizeLoop(rows, inv, selected) ==
    IF rows = <<>>
    THEN [inv |-> inv, selected |-> selected, raised |-> FALSE]
    ELSE LET r == Head(rows)
         IN IF ParseRaises(Some(r.in_at)) \/ ParseRaises(Some(r.exp_at))
            THEN [inv |-> inv, selected |-> selected, raised |-> TRUE]
            ELSE NormalizeLoop(Tail(rows),
                               SetDates(inv, r.id,
                                        _to_date_str(_parse_text_to_date(r.in_at)),
                                        _to_date_str(_parse_text_to_date(r.exp_at))),
                               selected)

\* _normalize_existing_rows_to_date_only up to its commit
_normalize_existing_rows_to_date_only(inv) ==
    LET S == {r \in inv : NeedsNormalizing(r)}
    IN NormalizeLoop(SortedBy(S, [r \in S |-> <<r.id>>]), inv, Cardinality(S))

----------------------------------------------------------------------------
(* db.update_item_exp_by_id *)

\* the UPDATE without its exp_source column
update_item_exp_keeping_source(inv, item_id, new_exp_d, exp_source) ==
    {IF r.id = item_id
     THEN [r EXCEPT !.exp_at = _to_date_str(new_exp_d), !.updated_at = _now_text]
     ELSE r : r \in inv}

\* UPDATE inventory SET exp_at=?, exp_source=?, updated_at=? WHERE id=?
update_item_exp_by_id(inv, item_id, new_exp_d, exp_source) ==
    {IF r.id = item_id
     THEN [r EXCEPT !.exp_at = _to_date_str(new_exp_d), !.exp_source = exp_source,
                    !.updated_at = _now_text]
     ELSE r : r \in inv}

----------------------------------------------------------------------------
(* inventory_tool._inventory_fn: one handler per action of the payload.     *)
(* A handler yields the tables after the call, what is durable after it    *)
(* and the call's record: [op, args, status, out, pre].                    *)

Outcome(inv, defs, s, com, res) ==
    [inv |-> inv, defs |-> defs, seq |-> s, com |-> com, res |-> res]

\* the record of a call: its arguments, what it returned (of a consume that
\* raised, the details it had built), the tables before it
Call(op, args, status, out) ==
    [op |-> op, args |-> args, status |-> status, out |-> out,
     pre |-> Db(inventory, defaults, seq)]

\* CHECK(quantity >= 0) of inventory
QuantityCheckFails(q) == ~(q >= 0)

\* the branches of add with exp_at tested before exp_days
ExpiryBranchAtFirst(exp_days, exp_at_raw) ==
    IF exp_at_raw # None THEN "exp_at"
    ELSE IF exp_days # None THEN "exp_days"
    ELSE "default"

\* which of the three branches of add resolves the expiry
ExpiryBranch(exp_days, exp_at_raw) ==
    IF exp_days # None THEN "exp_days"
    ELSE IF exp_at_raw # None THEN "exp_at"
    ELSE "default"

\* add_item on a table whose id is a plain rowid: the new id is one more
\* than the largest id stored, so the id of a deleted last batch comes back
AddItemReusingRowid(args, defs, com, in_d, exp_d, exp_source) ==
    IF QuantityCheckFails(Val(args.quantity))
    THEN Outcome(inventory, defs, seq, com, Call("add", args, "error", [error |-> "IntegrityError"]))
    ELSE LET id == IF inventory = {} THEN 1
                   ELSE (CHOOSE r \in inventory : \A o \in inventory : o.id <= r.id).id + 1
             inv1 == inventory \cup
                     {Row(id, Val(args.name), Val(args.quantity), _to_date_str(in_d),
                          _to_date_str(exp_d), exp_source, _now_text)}
         IN Outcome(inv1, defs, id, Db(inv1, defs, id),
                    Call("add", args, "ok",
                         [id |-> id, in_at |-> _to_date_str(in_d),
                          exp_at |-> _to_date_str(exp_d), exp_source |-> exp_source]))

\* add_item and the handler's return: INSERT, commit, the new id
AddItem(args, defs, com, in_d, exp_d, exp_source) ==
    IF QuantityCheckFails(Val(args.quantity))
    THEN Outcome(inventory, defs, seq, com, Call("add", args, "error", [error |-> "IntegrityError"]))
    ELSE LET id == seq + 1
             inv1 == inventory \cup
                     {Row(id, Val(args.name), Val(args.quantity), _to_date_str(in_d),
                          _to_date_str(exp_d), exp_source, _now_text)}
         IN Outcome(inv1, defs, id, Db(inv1, defs, id),
                    Call("add", args, "ok",
                         [id |-> id, in_at |-> _to_date_str(in_d),
                          exp_at |-> _to_date_str(exp_d), exp_source |-> exp_source]))

\* action == "add"
AddHandler(name, quantity, in_at_raw, exp_days, exp_at_raw) ==
    LET args == [name |-> name, quantity |-> quantity, in_at |-> in_at_raw,
                 exp_days |-> exp_days, exp_at |-> exp_at_raw]
        Fail(why) == Outcome(inventory, defaults, seq, committed,
                             Call("add", args, "error", [error |-> why]))
    IN IF Falsy(name) \/ quantity = None THEN Fail("missing")
       ELSE IF ParseRaises(in_at_raw) THEN Fail("ValueError")
       ELSE LET in_d == _parse_to_date(in_at_raw)
                branch == ExpiryBranch(exp_days, exp_at_raw)
            IN IF branch = "exp_days"
               THEN IF Overflows(in_d, Val(exp_days)) THEN Fail("OverflowError")
                    ELSE AddItem(args, defaults, committed, in_d,
                                 in_d + Val(exp_days), "user")
               ELSE IF branch = "exp_at"
               THEN IF ParseRaises(exp_at_raw) THEN Fail("ValueError")
                    ELSE AddItem(args, defaults, committed, in_d,
                                 _parse_to_date(exp_at_raw), "user")
               ELSE LET found == get_default_days(defaults, Val(name))
                        defs1 == IF found = None
                                 THEN upsert_default_days(defaults, Val(name), FallbackDays)
                                 ELSE defaults
                        com1 == IF found = None THEN Db(inventory, defs1, seq)
                                ELSE committed
                        days == IF found = None THEN FallbackDays ELSE Val(found)
                    IN IF Overflows(in_d, days)
                       THEN Outcome(inventory, defs1, seq, com1,
                                    Call("add", args, "error", [error |-> "OverflowError"]))
                       ELSE AddItem(args, defs1, com1, in_d, in_d + days, "default")

\* action == "consume"; budget is the number of statements the storage runs
\* before it raises (negative: it never raises)
ConsumeHandler(name, quantity, budget) ==
    LET args == [name |-> name, quantity |-> quantity]
    IN IF Falsy(name) \/ quantity = None
       THEN Outcome(inventory, defaults, seq, committed,
                    Call("consume", args, "error", [error |-> "missing"]))
       ELSE LET w == consume(inventory, Val(name), Val(quantity), budget)
            IN IF w.raised
               THEN Outcome(w.inv, defaults, seq, committed,
                            Call("consume", args, "error",
                                 [error |-> "sqlite3.Error", details |-> w.details]))
               ELSE Outcome(w.inv, defaults, seq, Db(w.inv, defaults, seq),
                            Call("consume", args, "ok",
                                 [requested |-> Val(quantity),
                                  unfulfilled |-> Unfulfilled(w.remaining),
                                  details |-> w.details]))

\* action == "set_shelf_life"
SetShelfLifeHandler(name, exp_days) ==
    LET args == [name |-> name, exp_days |-> exp_days]
        Fail(why) == Outcome(inventory, defaults, seq, committed,
                             Call("set_shelf_life", args, "error", [error |-> why]))
    IN IF Falsy(name) \/ exp_days = None THEN Fail("missing")
       ELSE IF DaysCheckFails(Val(exp_days)) THEN Fail("IntegrityError")
       ELSE LET defs1 == upsert_default_days(defaults, Val(name), Val(exp_days))
                com1 == Db(inventory, defs1, seq)
                w == Recalc(DefaultRows(inventory, Val(name)), inventory,
                            Val(exp_days), _now_text, 0)
            IN IF w.raised
               THEN Outcome(w.inv, defs1, seq, com1,
                            Call("set_shelf_life", args, "error", [error |-> w.error]))
               ELSE Outcome(w.inv, defs1, seq, Db(w.inv, defs1, seq),
                            Call("set_shelf_life", args, "ok",
                                 [updated_item_count |-> w.changed]))

RECURSIVE UpdateLoop(_, _, _, _, _)
\* update_expiry by name: the loop over the targets, each update committed on its own
UpdateLoop(targets, inv, exp_days, exp_at_raw, updated) ==
    IF targets = <<>>
    THEN [inv |-> inv, updated |-> updated, raised |-> FALSE]
    ELSE LET r == Head(targets)
             in_d == _parse_text_to_date(r.in_at)
             raises == \/ ParseRaises(Some(r.in_at))
                       \/ IF exp_days # None THEN Overflows(in_d, Val(exp_days))
                          ELSE ParseRaises(exp_at_raw)
             new_exp_d == IF exp_days # None THEN in_d + Val(exp_days)
                          ELSE _parse_to_date(exp_at_raw)
         IN IF raises
            THEN [inv |-> inv, updated |-> updated, raised |-> TRUE]
            ELSE UpdateLoop(Tail(targets),
                            update_item_exp_by_id(inv, r.id, new_exp_d, "user"),
                            exp_days, exp_at_raw, updated + 1)

\* the selection with earliest and latest exchanged
TargetsExchanged(rows, mode) ==
    IF mode = "earliest" THEN <<rows[Len(rows)]>>
    ELSE IF mode = "latest" THEN <<rows[1]>>
    ELSE rows

\* the rows update_expiry by name selects from the name-filtered list
Targets(rows, mode) ==
    IF mode = "earliest" THEN <<rows[1]>>
    ELSE IF mode = "latest" THEN <<rows[Len(rows)]>>
    ELSE rows

\* the id selector used only when no name is given
UsesIdUnlessNamed(item_id, name) == item_id # None /\ Falsy(name)

\* if item_id is not None: the id selector is used whenever an id is given
UsesId(item_id, name) == item_id # None

\* action == "update_expiry"
UpdateExpiryHandler(item_id, name, mode, exp_days, exp_at_raw) ==
    LET args == [id |-> item_id, name |-> name, mode |-> mode,
                 exp_days |-> exp_days, exp_at |-> exp_at_raw]
        Fail(why) == Outcome(inventory, defaults, seq, committed,
                             Call("update_expiry", args, "error", [error |-> why]))
    IN IF item_id = None /\ Falsy(name) THEN Fail("missing")
       ELSE IF UsesId(item_id, name)
       THEN IF ~\E k \in 1..Len(list_inventory(inventory)) :
                     list_inventory(inventory)[k].id = Val(item_id)
            THEN Fail("not_found")
            ELSE LET listed == list_inventory(inventory)
                     row == listed[CHOOSE k \in 1..Len(listed) :
                                       listed[k].id = Val(item_id)]
                     in_d == _parse_text_to_date(row.in_at)
                 IN IF ParseRaises(Some(row.in_at)) THEN Fail("ValueError")
                    ELSE IF exp_days = None /\ exp_at_raw = None THEN Fail("missing")
                    ELSE IF exp_days # None /\ Overflows(in_d, Val(exp_days))
                    THEN Fail("OverflowError")
                    ELSE IF exp_days = None /\ ParseRaises(exp_at_raw)
                    THEN Fail("ValueError")
                    ELSE LET new_exp_d == IF exp_days # None THEN in_d + Val(exp_days)
                                          ELSE _parse_to_date(exp_at_raw)
                             inv1 == update_item_exp_by_id(inventory, Val(item_id),
                                                           new_exp_d, "user")
                         IN Outcome(inv1, defaults, seq, Db(inv1, defaults, seq),
                                    Call("update_expiry", args, "ok",
                                         [updated_item_count |-> 1]))
       ELSE LET rows == get_items_by_name(inventory, Val(name))
            IN IF rows = <<>>
               THEN Outcome(inventory, defaults, seq, committed,
                            Call("update_expiry", args, "ok",
                                 [updated_item_count |-> 0]))
               ELSE IF exp_days = None /\ exp_at_raw = None THEN Fail("missing")
               ELSE LET w == UpdateLoop(Targets(rows, mode), inventory, exp_days,
                                        exp_at_raw, 0)
                        com1 == IF w.updated > 0 THEN Db(w.inv, defaults, seq)
                                ELSE committed
                    IN IF w.raised
                       THEN Outcome(w.inv, defaults, seq, com1,
                                    Call("update_expiry", args, "error",
                                         [error |-> "raised"]))
                       ELSE Outcome(w.inv, defaults, seq, com1,
                                    Call("update_expiry", args, "ok",
                                         [updated_item_count |-> w.updated]))

\* action == "query": list_inventory, each row with its days_remaining
QueryHandler ==
    LET rows == list_inventory(inventory)
    IN IF \E k \in 1..Len(rows) : ParseRaises(Some(rows[k].exp_at))
       THEN Outcome(inventory, defaults, seq, committed,
                    Call("query", [n_days |-> None], "error", [error |-> "ValueError"]))
       ELSE Outcome(inventory, defaults, seq, committed,
                    Call("query", [n_days |-> None], "ok",
                         [items |-> rows,
                          days_remaining |->
                              [k \in 1..Len(rows) |->
                                  _parse_to_date(Some(rows[k].exp_at)) - Today]]))

\* action == "expiring"
ExpiringHandler(n_days) ==
    LET args == [n_days |-> n_days]
        Fail(why) == Outcome(inventory, defaults, seq, committed,
                             Call("expiring", args, "error", [error |-> why]))
    IN IF n_days = None THEN Fail("missing")
       ELSE IF Overflows(Today, Val(n_days)) THEN Fail("OverflowError")
       ELSE Outcome(inventory, defaults, seq, committed,
                    Call("expiring", args, "ok",
                         [items |-> expiring_within(inventory, Today, Val(n_days))]))

\* db.get_items_by_name called on the connection
ListByNameCall(name) ==
    Outcome(inventory, defaults, seq, committed,
            Call("get_items_by_name", [name |-> name], "ok",
                 [items |-> get_items_by_name(inventory, name)]))

----------------------------------------------------------------------------
(* The state machine *)

\* what a call that touched nothing leaves in last
NoCall == [op |-> "none", args |-> <<>>, status |-> "none", out |-> <<>>,
           pre |-> Db({}, {}, 0)]

\* register_inventory_tool on a new database file: connect, migrate
Init ==
    /\ inventory = {}
    /\ defaults = {}
    /\ seq = 0
    /\ committed = Db({}, {}, 0)
    /\ clock = 0
    /\ last = NoCall

\* the tool is awaited: a payload is handled once the caller has read the
\* result of the one before
Idle == last.op = "none"

\* the handler returns: its writes are in the tables, its record in last
Apply(o) ==
    /\ inventory' = o.inv
    /\ defaults' = o.defs
    /\ seq' = o.seq
    /\ committed' = o.com
    /\ last' = o.res
    /\ UNCHANGED clock

\* a payload of action add
AddPayload(name, quantity, in_at_raw, exp_days, exp_at_raw) ==
    [name |-> name, quantity |-> quantity, in_at |-> in_at_raw,
     exp_days |-> exp_days, exp_at |-> exp_at_raw]

AddWith(payloads, max_id) ==
    /\ Idle
    /\ seq < max_id
    /\ \E p \in payloads :
          Apply(AddHandler(p.name, p.quantity, p.in_at, p.exp_days, p.exp_at))

ConsumeWith(names, quantities) ==
    /\ Idle
    /\ \E n \in names, q \in quantities : Apply(ConsumeHandler(n, q, -1))

\* a consume whose (j+1)-th DELETE or UPDATE raises and aborts that statement
\* alone, as a failed constraint does: the transaction stays open
ConsumeStorageErrorWith(names, quantities) ==
    /\ Idle
    /\ \E n \in names, q \in quantities, j \in 0..Cardinality(inventory) :
          /\ ~Falsy(n) /\ q # None
          /\ consume(inventory, Val(n), Val(q), j).raised
          /\ Apply(ConsumeHandler(n, q, j))

SetShelfLifeWith(names, days) ==
    /\ Idle
    /\ \E n \in names, d \in days : Apply(SetShelfLifeHandler(n, d))

\* a payload of action update_expiry
UpdatePayload(item_id, name, mode, exp_days, exp_at_raw) ==
    [id |-> item_id, name |-> name, mode |-> mode, exp_days |-> exp_days,
     exp_at |-> exp_at_raw]

UpdateExpiryWith(payloads) ==
    /\ Idle
    /\ \E p \in payloads :
          Apply(UpdateExpiryHandler(p.id, p.name, p.mode, p.exp_days, p.exp_at))

Query ==
    /\ Idle
    /\ Apply(QueryHandler)

ExpiringWith(days) ==
    /\ Idle
    /\ \E n \in days : Apply(ExpiringHandler(n))

ListByNameWith(names) ==
    /\ Idle
    /\ \E n \in names : Apply(ListByNameCall(n))

\* the caller reads the result
Return ==
    /\ ~Idle
    /\ last' = NoCall
    /\ UNCHANGED <<inventory, defaults, seq, committed, clock>>

\* time passes
Tick ==
    /\ Idle
    /\ clock < MaxClock
    /\ clock' = clock + 1
    /\ UNCHANGED <<inventory, defaults, seq, committed, last>>

\* the process ends and the tool is registered again: the open transaction is
\* lost, connect and migrate run on the durable content
Restart ==
    /\ Idle
    /\ Db(inventory, defaults, seq) # committed
    /\ LET n == _normalize_existing_rows_to_date_only(committed.inventory)
       IN /\ ~n.raised
          /\ inventory' = n.inv
          /\ committed' = [committed EXCEPT !.inventory = n.inv]
    /\ defaults' = committed.defaults
    /\ seq' = committed.seq
    /\ UNCHANGED <<clock, last>>

\* register_inventory_tool on an existing database file: connect, then
\* migrate with its normalization pass; when the pass raises, registration
\* fails and the updates it had made are lost with the connection
Register ==
    /\ Idle
    /\ LET n == _normalize_existing_rows_to_date_only(committed.inventory)
           inv1 == IF n.raised THEN committed.inventory ELSE n.inv
       IN /\ inventory' = inv1
          /\ committed' = [committed EXCEPT !.inventory = inv1]
          /\ last' = Call("migrate", [name |-> None],
                          IF n.raised THEN "error" ELSE "ok",
                          [selected |-> n.selected])
    /\ defaults' = committed.defaults
    /\ seq' = committed.seq
    /\ UNCHANGED clock

---------------------------------------------------------------------------------------------------------------------------------------------------
(* Spec: every action of the tool; the arrival dates, the expiry sources   *)
(* and the defaults vary, every batch is added with quantity 1             *)

AddPayloads ==
    {AddPayload(Some("milk"), Some(1), None, e[1], e[2]) :
        e \in {<<None, None>>, <<Some(1), None>>, <<None, Some(Ymd(3))>>,
               <<Some(1), Some(Ymd(3))>>}}
    \cup {AddPayload(Some("milk"), Some(1), Some(IsoUtcLate(0)), Some(1), Some(Ymd(3))),
          AddPayload(Some("egg"), Some(1), None, None, None),
          AddPayload(None, Some(1), None, None, None),
          AddPayload(Some("milk"), None, None, None, None),
          AddPayload(Some("egg"), Some(-1), None, None, None),
          AddPayload(Some("milk"), Some(1), Some(BadText), None, None),
          AddPayload(Some("milk"), Some(1), None, None, Some(BadText)),
          AddPayload(Some("milk"), Some(1), None, Some(MaxDate + 1), None)}

Add == AddWith(AddPayloads, MaxId)

Consume == ConsumeWith({None, Some("milk")}, {Some(1)})

ConsumeStorageError == ConsumeStorageErrorWith({Some("milk")}, {Some(1)})

SetShelfLife ==
    \/ SetShelfLifeWith({Some("milk")}, {Some(0), Some(2), Some(MaxDate)})
    \/ SetShelfLifeWith({None}, {Some(2)})
    \/ SetShelfLifeWith({Some("milk")}, {None})

UpdatePayloads ==
    {UpdatePayload(None, Some("milk"), "latest", None, Some(Ymd(3))),
     UpdatePayload(Some(MaxId + 1), None, "all", Some(2), None)}

UpdateExpiry == UpdateExpiryWith(UpdatePayloads)

Next ==
    \/ Add
    \/ Consume
    \/ ConsumeStorageError
    \/ SetShelfLife
    \/ UpdateExpiry
    \/ Return
    \/ Tick
    \/ Restart

Spec == Init /\ [][Next]_vars

-----
(* SpecConsume: add, consume with and without a storage error, restart;    *)
(* the quantities, the arrival dates and the expiry dates vary, the clock  *)
(* stands still                                                            *)

BatchPayloads ==
    {AddPayload(Some("milk"), Some(q), Some(Ymd(i)), None, Some(Ymd(e))) :
        q \in {1, 3}, i \in {0, 1}, e \in {2, 3}}
    \cup {AddPayload(Some("milk"), Some(0), Some(Ymd(0)), None, Some(Ymd(2))),
          AddPayload(Some("milk"), Some(-1), Some(Ymd(0)), None, Some(Ymd(2))),
          AddPayload(Some("egg"), Some(2), Some(Ymd(0)), None, Some(Ymd(2)))}

AddBatch == AddWith(BatchPayloads, MaxBatches)

ConsumeBatch ==
    ConsumeWith({None, Some("milk"), Some("egg")},
                {Some(-1), Some(1), Some(2), Some(3), Some(5)})

ConsumeBatchStorageError ==
    ConsumeStorageErrorWith({Some("milk")}, {Some(1), Some(2), Some(3), Some(5)})

NextConsume ==
    \/ AddBatch
    \/ ConsumeBatch
    \/ ConsumeBatchStorageError
    \/ Return
    \/ Restart

SpecConsume == Init /\ [][NextConsume]_vars

----------------------------------------------------------------------------
(* SpecUpdate: add, update_expiry by id and by name in every mode,         *)
(* set_shelf_life; default-sourced and user-sourced batches of one name    *)
(* with arrival dates out of id order, the clock stands still              *)

UpdateAddPayloads ==
    {AddPayload(Some("milk"), Some(1), Some(Ymd(1)), None, None),
     AddPayload(Some("milk"), Some(1), Some(Ymd(0)), None, None),
     AddPayload(Some("milk"), Some(1), Some(Ymd(0)), None, Some(Ymd(8))),
     AddPayload(Some("egg"), Some(1), Some(Ymd(0)), Some(2), None)}

AddForUpdate == AddWith(UpdateAddPayloads, MaxUpd)

UpdateByNamePayloads ==
    {UpdatePayload(None, Some("milk"), m, Some(2), None) :
        m \in {"earliest", "latest", "all"}}
    \cup {UpdatePayload(None, Some("milk"), "latest", None, Some(Ymd(5))),
          UpdatePayload(None, Some("milk"), "all", Some(MaxDate), None),
          UpdatePayload(None, Some("milk"), "all", None, None),
          UpdatePayload(None, Some("tofu"), "all", Some(2), None),
          UpdatePayload(None, None, "all", Some(2), None)}

UpdateByIdPayloads ==
    {UpdatePayload(Some(1), None, "all", Some(3), None),
     UpdatePayload(Some(2), Some("egg"), "all", None, Some(Ymd(4))),
     UpdatePayload(Some(1), None, "all", None, None),
     UpdatePayload(Some(MaxUpd + 1), Some("milk"), "all", Some(2), None)}

UpdateExpiryByName == UpdateExpiryWith(UpdateByNamePayloads)

UpdateExpiryById == UpdateExpiryWith(UpdateByIdPayloads)

SetShelfLifeAfterUpdate == SetShelfLifeWith({Some("milk")}, {Some(3)})

NextUpdate ==
    \/ AddForUpdate
    \/ UpdateExpiryByName
    \/ UpdateExpiryById
    \/ SetShelfLifeAfterUpdate
    \/ Return

SpecUpdate == Init /\ [][NextUpdate]_vars

----------------------------------------------------------------------------
(* SpecRead: add, the three reads and the clock; batches of two names that  *)
(* differ in case only, expiry dates on both sides of today, equal expiry  *)
(* dates with arrival dates out of id order                                *)

ReadAddPayloads ==
    {AddPayload(Some("milk"), Some(1), Some(Ymd(i)), None, Some(Ymd(e))) :
        i \in {0, 1}, e \in {2, 3}}
    \cup {AddPayload(Some("milk"), Some(1), Some(Ymd(0)), None, Some(Ymd(0))),
          AddPayload(Some("Milk"), Some(1), Some(Ymd(0)), None, Some(Ymd(2)))}

AddForRead == AddWith(ReadAddPayloads, MaxRead)

ListByName == ListByNameWith({"milk", "Milk", "tofu"})

Expiring ==
    ExpiringWith({None, Some(-1), Some(0), Some(1), Some(2), Some(MaxDate + 1)})

NextRead ==
    \/ AddForRead
    \/ Query
    \/ ListByName
    \/ Expiring
    \/ Return
    \/ Tick

SpecRead == Init /\ [][NextRead]_vars

----------------------------------------------------------------------------
(* SpecLegacy: the tool is registered, again and again, on a database file *)
(* whose rows an earlier version wrote with date-time texts                *)

\* the date texts of a row written before the dates were cut to the day
LegacyTexts ==
    {Ymd(1), IsoLocal(1), IsoUtcLate(1), YmdJunk(1), IsoLocal(-1), BadText}

\* the table of n rows whose in_at and exp_at are the texts t[k]
LegacyTable(n, t) ==
    {Row(k, "milk", 1, t[k][1], t[k][2], "user", 0) : k \in 1..n}

\* a file of at most MaxLegacy rows with such texts
InitLegacy ==
    /\ \E n \in 0..MaxLegacy :
          \E t \in [1..n -> LegacyTexts \X LegacyTexts] :
              inventory = LegacyTable(n, t)
    /\ defaults = {}
    /\ seq = Cardinality(inventory)
    /\ committed = Db(inventory, defaults, seq)
    /\ clock = 0
    /\ last = NoCall

NextLegacy ==
    \/ Register
    \/ Return

SpecLegacy == InitLegacy /\ [][NextLegacy]_vars

----------------------------------------------------------------------------
(* SpecDefault: the calls that return status ok, one after the other:      *)
(* add on the default path and with a given expiry, consume,               *)
(* set_shelf_life, update_expiry by name and by id; a call that would      *)
(* return status error is not made                                         *)

\* the most batches the runs of SpecDefault add
MaxDef == 3

DefaultAddPayloads ==
    {AddPayload(Some("milk"), Some(3), Some(Ymd(0)), None, None),
     AddPayload(Some("milk"), Some(3), Some(Ymd(1)), None, None),
     AddPayload(Some("milk"), Some(1), Some(Ymd(0)), None, Some(Ymd(8))),
     AddPayload(Some("milk"), Some(1), Some(Ymd(1)), Some(1), None),
     AddPayload(Some("egg"), Some(1), None, None, None)}

AddDefault ==
    /\ AddWith(DefaultAddPayloads, MaxDef)
    /\ last'.status = "ok"

ConsumeDefault ==
    /\ ConsumeWith({Some("milk"), Some("egg")}, {Some(1)})
    /\ last'.status = "ok"

SetShelfLifeDefault ==
    /\ SetShelfLifeWith({Some("milk"), Some("egg")}, {Some(0), Some(2), Some(MaxDate)})
    /\ last'.status = "ok"

DefaultUpdatePayloads ==
    {UpdatePayload(None, Some("milk"), "earliest", Some(1), None),
     UpdatePayload(Some(1), None, "all", None, Some(Ymd(5)))}

UpdateExpiryDefault ==
    /\ UpdateExpiryWith(DefaultUpdatePayloads)
    /\ last'.status = "ok"

NextDefault ==
    \/ AddDefault
    \/ ConsumeDefault
    \/ SetShelfLifeDefault
    \/ UpdateExpiryDefault
    \/ Return

SpecDefault == Init /\ [][NextDefault]_vars

----------------------------------------------------------------------------
(* SpecSource: the payloads of SpecDefault whatever the calls return, a    *)
(* consume with a storage error, and the restart that loses what was not   *)
(* committed                                                               *)

AddSource == AddWith(DefaultAddPayloads, MaxDef)

ConsumeSource == ConsumeWith({Some("milk")}, {Some(1), Some(2)})

ConsumeSourceStorageError == ConsumeStorageErrorWith({Some("milk")}, {Some(1), Some(2)})

SetShelfLifeSource == SetShelfLifeWith({Some("milk")}, {Some(2), Some(MaxDate)})

UpdateExpirySource == UpdateExpiryWith(DefaultUpdatePayloads)

NextSource ==
    \/ AddSource
    \/ ConsumeSource
    \/ ConsumeSourceStorageError
    \/ SetShelfLifeSource
    \/ UpdateExpirySource
    \/ Return
    \/ Restart

SpecSource == Init /\ [][NextSource]_vars

----------------------------------------------------------------------------
(* Properties of consume *)

\* the latest step was a consume call that passed the argument check
ConsumeCalled ==
    /\ last.op = "consume"
    /\ ~Falsy(last.args.name)
    /\ last.args.quantity # None

\* ... and returned {"status": "ok", "result": ...}
ConsumeOk == ConsumeCalled /\ last.status = "ok"

\* ... and raised in the storage
ConsumeRaised == ConsumeCalled /\ last.status = "error"

RECURSIVE SumConsumed(_)
SumConsumed(details) ==
    IF details = <<>> THEN 0
    ELSE Head(details).consumed + SumConsumed(Tail(details))

RECURSIVE TotalQuantity(_)
TotalQuantity(rows) ==
    IF rows = {} THEN 0
    ELSE LET r == CHOOSE x \in rows : TRUE
         IN r.quantity + TotalQuantity(rows \ {r})

\* the batches of a name
Batches(inv, name) == {r \in inv : r.name = name}

\* the row of that id before the call
PreRow(id) == CHOOSE r \in last.pre.inventory : r.id = id

\* every entry marked deleted records the batch's quantity before the call
DeletedRecordWhole ==
    \A k \in 1..Len(last.out.details) :
        last.out.details[k].deleted =>
            last.out.details[k].consumed = PreRow(last.out.details[k].row_id).quantity

\* C1, as claimed: for every consume with requested > 0 the consumed amounts
\* of the details sum to requested - unfulfilled, and every entry marked
\* deleted records the batch's quantity immediately before the call.
C1_SumIsRequestedMinusUnfulfilled ==
    (ConsumeOk /\ last.out.requested > 0) =>
        /\ SumConsumed(last.out.details) = last.out.requested - last.out.unfulfilled
        /\ DeletedRecordWhole

\* C1, amended: for every consume with requested > 0 the consumed amounts of
\* the details sum to requested - unfulfilled or exceed it by at most the
\* tolerance of 1e-9 (a last batch whose quantity exceeds the remainder by no
\* more than the tolerance is deleted whole), and every entry marked deleted
\* records the batch's quantity immediately before the call.
C1_SumWithinTolerance ==
    (ConsumeOk /\ last.out.requested > 0) =>
        /\ SumConsumed(last.out.details) >= last.out.requested - last.out.unfulfilled
        /\ SumConsumed(last.out.details)
              <= last.out.requested - last.out.unfulfilled + EPS
        /\ DeletedRecordWhole

\* a consume over two batches or more that deleted one and ended inside the tolerance
C1_Witness ==
    /\ ConsumeOk /\ last.out.requested > 0
    /\ Len(last.out.details) >= 2
    /\ \E k \in 1..Len(last.out.details) : last.out.details[k].deleted
    /\ SumConsumed(last.out.details) = last.out.requested + EPS

\* the ids of a sequence of rows
Ids(rows) == [k \in 1..Len(rows) |-> rows[k].id]

\* C2, as claimed: consume touches the batches of the name in ascending
\* (exp_at, in_at, id) order, the order listByName returns them in; of two
\* batches with one exp_at the one with the earlier in_at is depleted first.
C2_ConsumesInCanonicalOrder ==
    (ConsumeOk \/ ConsumeRaised) =>
        LET listed == Ids(get_items_by_name(last.pre.inventory, Val(last.args.name)))
        IN \A k \in 1..Len(last.out.details) :
              last.out.details[k].row_id = listed[k]

PreTotal == TotalQuantity(Batches(last.pre.inventory, Val(last.args.name)))

\* C4: a consume whose storage does not raise returns ok whatever the stock;
\* when requested exceeds the stored total of the name (also when no batch
\* of it exists) it deletes every batch of the name and reports
\* unfulfilled = requested - total > 0; when the stock suffices,
\* unfulfilled = 0.
C4_ShortfallIsReported ==
    (ConsumeCalled /\ ~(last.status = "error" /\ last.out.error = "sqlite3.Error")) =>
        /\ last.status = "ok"
        /\ last.out.requested = Val(last.args.quantity)
        /\ last.out.requested > PreTotal =>
              /\ Batches(inventory, Val(last.args.name)) = {}
              /\ last.out.unfulfilled = last.out.requested - PreTotal
              /\ last.out.unfulfilled > 0
        /\ last.out.requested <= PreTotal => last.out.unfulfilled = 0

\* a consume of more than the stock of a name that had batches
C4_Witness ==
    /\ ConsumeOk
    /\ Batches(last.pre.inventory, Val(last.args.name)) # {}
    /\ last.out.requested > PreTotal
    /\ last.out.unfulfilled > 0

\* C5, as claimed: a consume that fails partway through leaves none of its
\* deletions and decrements visible to what follows.
C5_FailedConsumeChangesNothing ==
    ConsumeRaised => inventory = last.pre.inventory

----------------------------------------------------------------------------
(* Properties of set_shelf_life *)

\* the latest step was a set_shelf_life call that passed the argument check
ShelfLifeCalled ==
    /\ last.op = "set_shelf_life"
    /\ ~Falsy(last.args.name)
    /\ last.args.exp_days # None

ShelfLifeOk == ShelfLifeCalled /\ last.status = "ok"

\* the default-sourced batches of a name
DefaultBatches(inv, name) == {r \in inv : r.name = name /\ r.exp_source = "default"}

\* exp_at = in_at + days, on the stored texts
ExpiresAfter(r, days) == SqlDate(r.exp_at) = SqlDate(r.in_at) + days

\* C6, as claimed: the upsert of the default and the recalculation commit
\* together or not at all: no committed state has the default of the name at
\* new_days and a default-sourced batch of the name with an exp_at that is
\* not in_at + new_days, also when the recalculation fails.
C6_DefaultAndBatchesCommitTogether ==
    (/\ ShelfLifeCalled
     /\ \E d \in committed.defaults :
           d.name = Val(last.args.name) /\ d.days = Val(last.args.exp_days))
    => \A r \in DefaultBatches(committed.inventory, Val(last.args.name)) :
          ExpiresAfter(r, Val(last.args.exp_days))

\* C7: set_shelf_life(name, days) leaves every batch whose exp_source is
\* user and every batch of another name as it was: the same exp_at,
\* exp_source, quantity and updated_at.
C7_UserAndOtherNamesUntouched ==
    ShelfLifeCalled =>
        \A r \in last.pre.inventory :
            (r.exp_source = "user" \/ r.name # Val(last.args.name)) => r \in inventory

\* a set_shelf_life that recalculated a batch, at a later time than the
\* last write of a user-sourced batch of the same name
C7_Witness ==
    /\ ShelfLifeOk
    /\ last.out.updated_item_count >= 1
    /\ \E r \in last.pre.inventory :
          /\ r.name = Val(last.args.name)
          /\ r.exp_source = "user"
          /\ r.updated_at < clock

\* C8: after a successful set_shelf_life(name, new_days) the default of the
\* name is new_days, every stored default-sourced batch of the name has
\* exp_at = in_at + new_days, and updated_item_count is the number of those
\* batches.
C8_DefaultSetAndBatchesRecalculated ==
    ShelfLifeOk =>
        /\ \E d \in defaults :
              d.name = Val(last.args.name) /\ d.days = Val(last.args.exp_days)
        /\ \A d \in defaults :
              d.name = Val(last.args.name) => d.days = Val(last.args.exp_days)
        /\ \A r \in DefaultBatches(inventory, Val(last.args.name)) :
              ExpiresAfter(r, Val(last.args.exp_days))
        /\ last.out.updated_item_count
              = Cardinality(DefaultBatches(inventory, Val(last.args.name)))

\* a set_shelf_life that moved the expiry of two batches
C8_Witness ==
    /\ ShelfLifeOk
    /\ last.out.updated_item_count = 2
    /\ \E r \in last.pre.inventory : r \notin inventory

----------------------------------------------------------------------------
(* Properties of add *)

AddCalled == last.op = "add"

AddOk == AddCalled /\ last.status = "ok"

\* the row the add inserted
AddedRow == CHOOSE r \in inventory : r.id = last.out.id

\* the default days of a name in a table of defaults (0 without a row)
DaysOf(defs, name) ==
    IF \E d \in defs : d.name = name
    THEN (CHOOSE d \in defs : d.name = name).days
    ELSE 0

\* C9: add resolves the expiry by strict priority: with exp_days,
\* exp_at = in_at + exp_days and exp_source = user, also when an exp_at text
\* is given; else with exp_at, that date and exp_source = user; else
\* exp_at = in_at + the default days of the name and exp_source = default.
C9_ExpiryPriority ==
    AddOk =>
        /\ \E r \in inventory : r.id = last.out.id
        /\ AddedRow.exp_at = last.out.exp_at
        /\ AddedRow.exp_source = last.out.exp_source
        /\ AddedRow.in_at = last.out.in_at
        /\ IF last.args.exp_days # None
           THEN /\ ExpiresAfter(AddedRow, Val(last.args.exp_days))
                /\ AddedRow.exp_source = "user"
           ELSE IF last.args.exp_at # None
           THEN /\ AddedRow.exp_at = last.args.exp_at[1]
                /\ AddedRow.exp_source = "user"
           ELSE /\ ExpiresAfter(AddedRow, DaysOf(defaults, Val(last.args.name)))
                /\ AddedRow.exp_source = "default"

\* an add given exp_days, an exp_at text of another date and an in_at text
C9_Witness ==
    /\ AddOk
    /\ last.args.exp_days # None
    /\ last.args.exp_at # None
    /\ last.args.in_at # None
    /\ SqlDate(last.args.exp_at[1]) # SqlDate(AddedRow.exp_at)

\* C10: an add without exp_days and exp_at for a name without a default
\* registers the default 7 and uses it; an add for a name that has a
\* default leaves that default as it is; an add with exp_days or exp_at
\* creates and changes no default row.
C10_FallbackDefault ==
    AddCalled =>
        /\ (/\ last.status = "ok"
            /\ last.args.exp_days = None /\ last.args.exp_at = None
            /\ ~\E d \in last.pre.defaults : d.name = Val(last.args.name))
           => /\ DaysOf(defaults, Val(last.args.name)) = FallbackDays
              /\ ExpiresAfter(AddedRow, FallbackDays)
        /\ \A d \in last.pre.defaults : d \in defaults
        /\ (last.args.exp_days # None \/ last.args.exp_at # None)
           => defaults = last.pre.defaults

\* an add that registered the fallback default beside the changed default
\* of another name, and one that used a default changed before
C10_Witness ==
    /\ AddOk
    /\ last.args.exp_days = None /\ last.args.exp_at = None
    /\ ~\E d \in last.pre.defaults : d.name = Val(last.args.name)
    /\ \E d \in last.pre.defaults : d.days # FallbackDays

\* C13, as claimed: every add that returns an error (missing name or
\* quantity, quantity < 0, a date text no parse stage accepts) leaves the
\* inventory table and the shelf-life default table as they were before the
\* call; a rejected add registers no default.
C13_RejectedAddChangesNothing ==
    (AddCalled /\ last.status = "error") =>
        /\ inventory = last.pre.inventory
        /\ defaults = last.pre.defaults
        /\ committed.defaults = last.pre.defaults

----------------------------------------------------------------------------
(* Properties of the stored quantities and ids *)

\* C14: every stored batch has quantity >= 0, in the tables the connection
\* sees and in the durable ones; a batch a consume brings to exactly zero
\* is deleted, and a batch a consume decrements and keeps has quantity > 0.
C14_QuantityNeverNegative ==
    /\ \A r \in inventory \cup committed.inventory : r.quantity >= 0
    /\ (ConsumeOk \/ ConsumeRaised) =>
          /\ \A r \in inventory : r \notin last.pre.inventory => r.quantity > 0
          /\ \A k \in 1..Len(last.out.details) :
                LET e == last.out.details[k]
                IN /\ PreRow(e.row_id).quantity - e.consumed <= 0
                        => ~\E r \in inventory : r.id = e.row_id
                   /\ ~e.deleted
                        => \E r \in inventory : r.id = e.row_id /\ r.quantity > 0

\* a consume of exactly the quantity of the batch it reached after deleting
\* a batch of quantity 0: both are gone, a third batch of the name is kept
C14_Witness ==
    /\ ConsumeOk
    /\ Len(last.out.details) = 2
    /\ last.out.details[1].consumed = 0
    /\ last.out.details[2].consumed = last.out.requested
    /\ last.out.details[2].deleted
    /\ Batches(inventory, Val(last.args.name)) # {}

\* the latest step was a call of the tool
Called == last.op # "none"

\* C17: batch ids are unique and assigned in increasing order: every
\* successful add returns an id greater than every id assigned before it
\* (the counter of assigned ids is durable and no stored id exceeds it, so
\* the ids of batches a consume deleted stay below), and no operation
\* changes the id of a stored batch: a batch stored after a call was stored
\* before it under the same id, unless it is the one the add inserted.
C17_IdsUniqueAndIncreasing ==
    /\ \A a, b \in inventory : a.id = b.id => a = b
    /\ \A r \in inventory \cup committed.inventory : r.id <= seq
    /\ committed.seq = seq
    /\ seq >= last.pre.seq
    /\ AddOk =>
          /\ last.out.id > last.pre.seq
          /\ \A r \in last.pre.inventory : r.id < last.out.id /\ r \in inventory
          /\ \E r \in inventory : r.id = last.out.id
    /\ Called =>
          \A r \in inventory :
              \/ AddOk /\ r.id = last.out.id
              \/ \E p \in last.pre.inventory :
                    p.id = r.id /\ p.name = r.name /\ p.in_at = r.in_at

\* an add after a consume deleted the batch of the largest id: two ids were
\* assigned before, one batch was stored at the call, the new id is above both
C17_Witness ==
    /\ AddOk
    /\ last.pre.seq = 2
    /\ \E r \in last.pre.inventory : r.id = 1
    /\ Cardinality(last.pre.inventory) = 1
    /\ last.out.id = 3

----------------------------------------------------------------------------
(* Properties of update_expiry *)

UpdateCalled == last.op = "update_expiry"

UpdateOk == UpdateCalled /\ last.status = "ok"

\* the call selects by id
UpdateById == UpdateCalled /\ last.args.id # None

\* the call selects by name
UpdateByName == UpdateCalled /\ last.args.id = None /\ ~Falsy(last.args.name)

\* the batches of the call's name before the call
NamedBefore == Batches(last.pre.inventory, Val(last.args.name))

\* a comes before b in ascending (exp_at, in_at, id)
Precedes(a, b) ==
    \/ SqlDate(a.exp_at) < SqlDate(b.exp_at)
    \/ /\ SqlDate(a.exp_at) = SqlDate(b.exp_at)
       /\ SqlDate(a.in_at) < SqlDate(b.in_at)
    \/ /\ SqlDate(a.exp_at) = SqlDate(b.exp_at)
       /\ SqlDate(a.in_at) = SqlDate(b.in_at)
       /\ a.id < b.id

\* the batches the selector of the call designates, as they were before it
Selected ==
    IF UpdateById THEN {r \in last.pre.inventory : r.id = Val(last.args.id)}
    ELSE IF last.args.mode = "earliest"
    THEN {r \in NamedBefore : \A o \in NamedBefore \ {r} : Precedes(r, o)}
    ELSE IF last.args.mode = "latest"
    THEN {r \in NamedBefore : \A o \in NamedBefore \ {r} : Precedes(o, r)}
    ELSE NamedBefore

\* the stored row of an id
Stored(id) == CHOOSE r \in inventory : r.id = id

\* the days a set_shelf_life may set
ShelfLifeDays == 1..MaxDate

\* a set_shelf_life for the batch's name, whatever its days, leaves the
\* batch's exp_at and exp_source as they are
KeptBySetShelfLife(r) ==
    \A d \in ShelfLifeDays :
        \E n \in SetShelfLifeHandler(Some(r.name), Some(d)).inv :
            n.id = r.id /\ n.exp_at = r.exp_at /\ n.exp_source = r.exp_source

\* C11: every batch an update_expiry wrote (also one that raised after some
\* of its updates) and every batch a returned update_expiry selected has
\* exp_source = user afterwards, whatever its source before, and a
\* set_shelf_life for its name that follows leaves its exp_at unchanged.
C11_UpdatedBatchesBecomeUser ==
    UpdateCalled =>
        /\ \A r \in inventory :
              r \notin last.pre.inventory =>
                  r.exp_source = "user" /\ KeptBySetShelfLife(r)
        /\ UpdateOk =>
              \A p \in Selected :
                  /\ \E r \in inventory : r.id = p.id
                  /\ Stored(p.id).exp_source = "user"
                  /\ KeptBySetShelfLife(Stored(p.id))

\* an update by name that turned two default-sourced batches into
\* user-sourced ones while the name has a registered default
C11_Witness ==
    /\ UpdateOk /\ UpdateByName
    /\ Cardinality({p \in Selected : p.exp_source = "default"}) >= 2
    /\ \E d \in defaults : d.name = Val(last.args.name)

\* the expiry the call asks for, for a batch with that in_at: exp_days is
\* tested first
AskedExpiry(p) ==
    IF last.args.exp_days # None
    THEN SqlDate(p.in_at) + Val(last.args.exp_days)
    ELSE _parse_to_date(last.args.exp_at)

----------------------------------------------------------------------------
(* Properties of the reads *)

\* the rows of a sequence ascend in (exp_at, in_at, id)
IsAscending(rows) ==
    \A i, j \in 1..Len(rows) : i < j => Precedes(rows[i], rows[j])

\* a sequence holds every row of S exactly once and nothing else
ListsExactly(rows, S) ==
    /\ Len(rows) = Cardinality(S)
    /\ {rows[k] : k \in 1..Len(rows)} = S

\* the call left the tables, seen and durable, as they were
ReadOnly ==
    /\ Db(inventory, defaults, seq) = last.pre
    /\ committed = last.pre

----------------------------------------------------------------------------
(* Properties of the default table *)

\* the row of a name in a table of defaults
DefaultOf(defs, name) == CHOOSE d \in defs : d.name = name

\* the latest step was a set_shelf_life that reached upsert_default_days
\* with its name and days and passed CHECK(days > 0)
Upserted == ShelfLifeCalled /\ ~DaysCheckFails(Val(last.args.exp_days))

\* C18: the default table holds at most one row per name, seen and durable.
\* An upsert of (name, days) leaves the rows of the other names as they
\* were and the name with days; when the name had a row, its created_at is
\* kept, and when that row had the same days already (the upsert is a
\* second one with the same arguments) the table is the same as before
\* except for the updated_at of that row.
C18_UpsertIdempotent ==
    /\ \A a, b \in defaults : a.name = b.name => a = b
    /\ \A a, b \in committed.defaults : a.name = b.name => a = b
    /\ Upserted =>
          LET n == Val(last.args.name)
              days == Val(last.args.exp_days)
          IN /\ {d.name : d \in defaults} = {d.name : d \in last.pre.defaults} \cup {n}
             /\ \A d \in last.pre.defaults : d.name # n => d \in defaults
             /\ DefaultOf(defaults, n).days = days
             /\ \A d \in last.pre.defaults :
                   d.name = n =>
                       /\ DefaultOf(defaults, n).created_at = d.created_at
                       /\ d.days = days =>
                             [DefaultOf(defaults, n) EXCEPT !.updated_at = d.updated_at] = d

\* a second set_shelf_life with the same name and days at a later time than
\* the first, beside the default of another name
C18_Witness ==
    /\ Upserted
    /\ \E d \in last.pre.defaults :
          /\ d.name = Val(last.args.name)
          /\ d.days = Val(last.args.exp_days)
          /\ d.updated_at < clock
          /\ DefaultOf(defaults, d.name).updated_at = clock
    /\ \E d \in defaults : d.name # Val(last.args.name)

----------------------------------------------------------------------------
(* Properties of the normalization pass *)

\* the latest step was a registration whose normalization pass completed
MigrateOk == last.op = "migrate" /\ last.status = "ok"

\* C19, as claimed: after one run of the normalization pass every row's
\* in_at and exp_at is a text of 10 characters without a time separator,
\* the rows that were so before are not rewritten, and a second run selects
\* and changes no row.
C19_NormalizationIdempotent ==
    MigrateOk =>
        /\ \A r \in inventory : ~NeedsNormalizing(r)
        /\ \A r \in last.pre.inventory : ~NeedsNormalizing(r) => r \in inventory
        /\ LET again == _normalize_existing_rows_to_date_only(inventory)
           IN /\ ~again.raised
              /\ again.selected = 0
              /\ again.inv = inventory

----------------------------------------------------------------------------
(* Properties of update_expiry by id *)

\* a batch of the call's id was stored before the call
IdStoredBefore == \E r \in last.pre.inventory : r.id = Val(last.args.id)

\* C20: an update_expiry with an id that no stored batch has returns the
\* not-found error and changes no batch and no default.  With an id, the
\* name of the payload is ignored: only the batch of that id can change,
\* and a call that returns ok has updated that batch alone.
C20_UnknownIdChangesNothing ==
    UpdateById =>
        /\ defaults = last.pre.defaults
        /\ ~IdStoredBefore =>
              /\ last.status = "error"
              /\ last.out.error = "not_found"
              /\ inventory = last.pre.inventory
              /\ committed.inventory = last.pre.inventory
        /\ \A r \in last.pre.inventory : r.id # Val(last.args.id) => r \in inventory
        /\ UpdateOk =>
              /\ IdStoredBefore
              /\ last.out.updated_item_count = 1
              /\ \A p \in Selected :
                    /\ Stored(p.id).exp_source = "user"
                    /\ SqlDate(Stored(p.id).exp_at) = AskedExpiry(p)

\* an update with an unknown id and the name of two stored batches
C20_Witness ==
    /\ UpdateById
    /\ ~IdStoredBefore
    /\ last.status = "error"
    /\ last.args.name # None
    /\ Cardinality(Batches(last.pre.inventory, Val(last.args.name))) >= 2

----------------------------------------------------------------------------
(* Properties of consume: what it leaves alone and what it reports *)

\* the batches of the call's name, before the call, that the call deleted
\* or decremented
Touched == {p \in NamedBefore : p \notin inventory}

\* C21, as claimed: a consume leaves every batch of another name as it was
\* and adds none, and the batches it deletes or decrements form a prefix of
\* the name's consumption order, the ascending (exp_at, in_at, id) order:
\* no batch of the name that comes before a touched one is left untouched.
C21_TouchesPrefixOfConsumptionOrder ==
    (ConsumeOk \/ ConsumeRaised) =>
        /\ \A r \in last.pre.inventory : r.name # Val(last.args.name) => r \in inventory
        /\ \A r \in inventory : \E p \in last.pre.inventory : p.id = r.id
        /\ \A t \in Touched : \A o \in NamedBefore : Precedes(o, t) => o \in Touched

\* C22: the details a consume returns match what it did to the table: the
\* consumed amounts sum to the decrease of the stored total of the name,
\* an entry marked deleted names a batch that is stored no more, an entry
\* not marked deleted names a batch whose quantity dropped by exactly its
\* consumed amount, at most one entry is not marked deleted and it is the
\* last one, and no batch id appears twice.
C22_DetailsMatchMutation ==
    ConsumeOk =>
        LET details == last.out.details
            n == Len(details)
        IN /\ SumConsumed(details)
                 = PreTotal - TotalQuantity(Batches(inventory, Val(last.args.name)))
           /\ \A k \in 1..n :
                 /\ \E p \in NamedBefore : p.id = details[k].row_id
                 /\ details[k].deleted
                       => ~\E r \in inventory : r.id = details[k].row_id
                 /\ ~details[k].deleted
                       => /\ k = n
                          /\ \E r \in inventory :
                                /\ r.id = details[k].row_id
                                /\ r.quantity = PreRow(r.id).quantity - details[k].consumed
           /\ \A j, k \in 1..n : details[j].row_id = details[k].row_id => j = k
           /\ \A p \in Touched : \E k \in 1..n : details[k].row_id = p.id

\* a consume that deleted two batches and decremented a third
C22_Witness ==
    /\ ConsumeOk
    /\ Len(last.out.details) = 3
    /\ last.out.details[1].deleted /\ last.out.details[1].consumed > 0
    /\ last.out.details[2].deleted
    /\ ~last.out.details[3].deleted

----------------------------------------------------------------------------
(* Properties of the expiry source *)

\* C23: after any sequence of add, consume, set_shelf_life and update_expiry
\* calls that each returned status ok, every stored batch whose exp_source is
\* default has a default registered for its name, and its exp_at is its
\* in_at + the days of that default.
C23_DefaultBatchesFollowDefault ==
    \A r \in inventory :
        r.exp_source = "default" =>
            /\ \E d \in defaults : d.name = r.name
            /\ ExpiresAfter(r, DaysOf(defaults, r.name))

\* an add on the default path, under a default that a set_shelf_life set,
\* next to an older default-sourced batch of the name with another arrival
\* date and a user-sourced batch whose expiry is not in_at + that default
C23_Witness ==
    /\ AddOk
    /\ last.out.exp_source = "default"
    /\ DaysOf(defaults, Val(last.args.name)) # FallbackDays
    /\ \E r \in inventory :
          /\ r.name = Val(last.args.name)
          /\ r.exp_source = "default"
          /\ r.id # last.out.id
          /\ r.in_at # AddedRow.in_at
    /\ \E u \in inventory :
          /\ u.name = Val(last.args.name)
          /\ u.exp_source = "user"
          /\ ~ExpiresAfter(u, DaysOf(defaults, u.name))

\* C24: the exp_source of a batch only moves from default to user: no step
\* (add, consume, set_shelf_life, update_expiry, whatever it returns, or a
\* restart) leaves a batch that was user-sourced stored as default-sourced,
\* and a consume leaves the exp_at, in_at and exp_source of every batch it
\* does not delete as they were.
C24_SourceOnlyMovesToUser ==
    [][\A p \in inventory : \A r \in inventory' :
          r.id = p.id =>
              /\ p.exp_source = "user" => r.exp_source = "user"
              /\ last'.op = "consume" =>
                    /\ r.exp_at = p.exp_at
                    /\ r.in_at = p.in_at
                    /\ r.exp_source = p.exp_source]_vars

\* a consume that deleted a batch and decremented a user-sourced batch that
\* an update_expiry had moved from default to user, under a default that a
\* set_shelf_life set, next to a default-sourced batch of the name
C24_Witness ==
    /\ ConsumeOk
    /\ Len(last.out.details) = 2
    /\ last.out.details[1].deleted
    /\ ~last.out.details[2].deleted
    /\ PreRow(last.out.details[2].row_id).exp_source = "user"
    /\ ~ExpiresAfter(PreRow(last.out.details[2].row_id), 1)
    /\ PreRow(last.out.details[2].row_id).quantity = 3
    /\ DaysOf(defaults, "milk") # FallbackDays
    /\ \E r \in inventory : r.name = "milk" /\ r.exp_source = "default"
====
